---- MODULE Spec2Model ----
(***************************************************************************)
(* BigDataViewerHDF5 (src/ome_zarr/bdvh5.py): discovery of the channel and *)
(* time keys of a BigDataViewer HDF5 container, the virtual-array read     *)
(* __getitem__, and the conversion to_zarr into a zarr group holding one   *)
(* array per resolution level.                                             *)
(*                                                                         *)
(* The container is an input: it is chosen in Init and never written.      *)
(* A top-level entry is a record [pre, num]: "s00" is [pre |-> "s",        *)
(* num |-> 0], "t00001" is [pre |-> "t", num |-> 1] and "__DATA_TYPES__"   *)
(* is [pre |-> "_", num |-> 0].  A dataset is [shape, chunks, data] with   *)
(* the (z, y, x) shape <<n, 1, 1>> and data the sequence of its n voxels.  *)
(***************************************************************************)
EXTENDS Integers, Sequences, FiniteSets, TLC

\* ------------------------------------------------------------- bounds
\* time points a container may hold
MaxT == 2
\* channels a container may hold
MaxC == 2
\* longest 'resolutions' table
MaxL == 2
\* to_zarr calls in one behaviour
MaxRuns == 2

\* the numbers of the keys of one prefix: n consecutive numbers from 0 (s00,
\* s01, ...) or from 1 (s01, s02, ...: position and number then differ)
NameSets(max) == {skip .. (skip + n - 1) : n \in 0 .. max, skip \in 0 .. 1}
TimeNames == NameSets(MaxT)
ChanNames == NameSets(MaxC)
Levels == 0 .. (MaxL - 1)

\* a node the container does not hold
NoNode == [ok |-> FALSE]
\* the contents of a slice of an array created empty and not written yet
Unwritten == <<-1>>

SEntry(n) == [pre |-> "s", num |-> n]
TEntry(n) == [pre |-> "t", num |-> n]
DataTypes == [pre |-> "_", num |-> 0]

RECURSIVE SortedSeq(_)
SortedSeq(S) ==
    IF S = {} THEN <<>>
    ELSE LET m == CHOOSE x \in S : \A y \in S : x <= y
         IN  <<m>> \o SortedSeq(S \ {m})

\* the entries of one prefix with the numbers of S, in name order
Entries(pre, S) == [k \in 1 .. Cardinality(S) |-> [pre |-> pre, num |-> SortedSeq(S)[k]]]

\* ------------------------------------------------------------- the container
\* the voxel values of the dataset at (time t, channel c, level l)
\* (every dataset holds values of its own: the code never looks at them)
Voxels(t, c, l) ==
    [z \in 1 .. (MaxL - l) |-> 1000 * (t + 1) + 100 * c + 10 * l + z]

Dataset(t, c, l) ==
    [ok |-> TRUE, shape |-> <<MaxL - l, 1, 1>>, chunks |-> <<1, 1, 1>>,
     data |-> Voxels(t, c, l)]

\* one irregularity of a container: a channel without its 'resolutions'
\* table, a missing cells node, or a dataset whose shape or chunk geometry
\* differs from that of its level
Defects(tn, cn, lv, kinds) ==
    {[kind |-> "none"]}
    \cup {[kind |-> "notable", c |-> c] : c \in {x \in cn : "notable" \in kinds}}
    \cup {[kind |-> k, t |-> n[1], c |-> n[2], l |-> n[3]] :
            k \in kinds \ {"notable"},
            n \in {m \in tn \X cn \X Levels : m[3] < lv[m[2]]}}

Container(tn, cn, lv, d) ==
    [keys |-> <<DataTypes>> \o Entries("s", cn) \o Entries("t", tn),
     res |-> [c \in cn |->
                IF d.kind = "notable" /\ d.c = c THEN NoNode
                ELSE [ok |-> TRUE, rows |-> [k \in 1 .. lv[c] |-> k]]],
     cells |-> [n \in tn \X cn \X Levels |->
                LET hit == d.kind \in {"nonode", "shape", "chunks"}
                           /\ <<d.t, d.c, d.l>> = n
                    ds == Dataset(n[1], n[2], n[3])
                IN  IF n[3] >= lv[n[2]] THEN NoNode
                    ELSE IF ~hit THEN ds
                    ELSE IF d.kind = "nonode" THEN NoNode
                    ELSE IF d.kind = "shape"
                         THEN [ds EXCEPT !.shape = <<ds.shape[1] + 1, 1, 1>>,
                                         !.data = ds.data \o <<0>>]
                    ELSE [ds EXCEPT !.chunks = <<2, 1, 1>>]]]

VARIABLES
    h5,         \* self.h5: the opened container
    store,      \* the destination directory: [exists, arrays]
    pc,         \* position of the to_zarr call: idle, multiscales, level, copy, done, raised
    overwrite,  \* the overwrite argument of the call in progress
    err,        \* the exception the call in progress raised, or "none"
    levels,     \* the sequence `for i in self.multiscales` iterates
    idx,        \* position of the loop in levels (1-based)
    dset,       \* the local dset of the current iteration
    pos,        \* <<_t, _ch>> of the copy loops
    runs,       \* to_zarr calls started
    before,     \* history: the destination as the call in progress found it
    created,    \* history: the array names the call in progress created
    last,       \* history: how the previous call ended
    rd          \* the last __getitem__ call: its indices and its outcome

vars == <<h5, store, pc, overwrite, err, levels, idx, dset, pos, runs,
          before, created, last, rd>>

\* ------------------------------------------------------------- python helpers
\* seq[i] of a tuple or list: positions -n .. -1 count from the end
PyIndexOk(s, i) == -Len(s) <= i /\ i < Len(s)
PyIndex(s, i) == s[(IF i < 0 THEN i + Len(s) ELSE i) + 1]

\* seq[lo:hi] with 0 <= lo, 0 <= hi: the bounds are clamped to the length
PySlice(s, lo, hi) == SubSeq(s, lo + 1, IF hi < Len(s) THEN hi ELSE Len(s))

Range(s) == {s[k] : k \in DOMAIN s}

\* ------------------------------------------------------------- discovery
channel_keys(h) == SelectSeq(h.keys, LAMBDA e : e.pre = "s")

tseries_keys(h) == SelectSeq(h.keys, LAMBDA e : e.pre = "t")

\* self.h5[c]['resolutions'] raises KeyError for a channel without the table
ScalesRaises(h) == \E c \in Range(channel_keys(h)) : ~h.res[c.num].ok

scales(h) == [c \in Range(channel_keys(h)) |-> h.res[c.num].rows]

multiscales(h) ==
    LET cks == channel_keys(h)
        sc == scales(h)
        lengths == [k \in 1 .. Len(cks) |-> Len(sc[cks[k]])]
    IN  IF Cardinality(Range(lengths)) = 1
        THEN [k \in 1 .. lengths[1] |-> k - 1]
        ELSE lengths

\* self.h5[_ts][_ch][str(i)]['cells'] raises KeyError for a missing node;
\* every pair and every level is resolved on the first access
ArraysRaises(h) ==
    \/ ScalesRaises(h)
    \/ LET sc == scales(h)
       IN  \E ts \in Range(tseries_keys(h)), ch \in Range(channel_keys(h)) :
              \E i \in 0 .. (Len(sc[ch]) - 1) :
                 ~h.cells[<<ts.num, ch.num, i>>].ok

arrays(h) ==
    LET sc == scales(h)
        cks == Range(channel_keys(h))
    IN  [ts \in Range(tseries_keys(h)) |->
            [ch \in cks |->
                [k \in 1 .. Len(sc[ch]) |-> h.cells[<<ts.num, ch.num, k - 1>>]]]]

\* ------------------------------------------------------------- __getitem__
\* variant: a time or channel integer that is the number of an existing key
\* selects that key, whatever its position
GetItemResultRawKey(h, res, t, ch, z) ==
    IF ~PyIndexOk(tseries_keys(h), t) THEN [err |-> "IndexError"]
    ELSE IF ~PyIndexOk(channel_keys(h), ch) THEN [err |-> "IndexError"]
    ELSE IF ArraysRaises(h) THEN [err |-> "KeyError"]
    ELSE LET tk == IF TEntry(t) \in Range(tseries_keys(h)) THEN TEntry(t)
                   ELSE PyIndex(tseries_keys(h), t)
             ck == IF SEntry(ch) \in Range(channel_keys(h)) THEN SEntry(ch)
                   ELSE PyIndex(channel_keys(h), ch)
             lst == arrays(h)[tk][ck]
         IN  IF ~PyIndexOk(lst, res) THEN [err |-> "IndexError"]
             ELSE [err |-> "none",
                   val |-> PySlice(PyIndex(lst, res).data, z[1], z[2])]

\* variant: positions wrap around the length of a non-empty axis
GetItemResultWrap(h, res, t, ch, z) ==
    IF Len(tseries_keys(h)) = 0 THEN [err |-> "IndexError"]
    ELSE IF Len(channel_keys(h)) = 0 THEN [err |-> "IndexError"]
    ELSE IF ArraysRaises(h) THEN [err |-> "KeyError"]
    ELSE LET tk == tseries_keys(h)[(t % Len(tseries_keys(h))) + 1]
             ck == channel_keys(h)[(ch % Len(channel_keys(h))) + 1]
             lst == arrays(h)[tk][ck]
         IN  IF Len(lst) = 0 THEN [err |-> "IndexError"]
             ELSE [err |-> "none",
                   val |-> PySlice(lst[(res % Len(lst)) + 1].data, z[1], z[2])]

\* obj[res, t, ch, z, :, :] with z the slice lo:hi
GetItemResult(h, res, t, ch, z) ==
    IF ~PyIndexOk(tseries_keys(h), t) THEN [err |-> "IndexError"]
    ELSE IF ~PyIndexOk(channel_keys(h), ch) THEN [err |-> "IndexError"]
    ELSE IF ArraysRaises(h) THEN [err |-> "KeyError"]
    ELSE LET tk == PyIndex(tseries_keys(h), t)
             ck == PyIndex(channel_keys(h), ch)
             lst == arrays(h)[tk][ck]
         IN  IF ~PyIndexOk(lst, res) THEN [err |-> "IndexError"]
             ELSE [err |-> "none",
                   val |-> PySlice(PyIndex(lst, res).data, z[1], z[2])]

\* ------------------------------------------------------------- to_zarr
NoArrays == [n \in {} |-> NoNode]

\* variant: the group is erased whatever the flag says
ZarrGroupErase(st, ow) == [exists |-> TRUE, arrays |-> NoArrays]

\* variant: an existing group is opened as it is whatever the flag says
ZarrGroupKeep(st, ow) ==
    IF ~st.exists THEN [exists |-> TRUE, arrays |-> NoArrays] ELSE st

\* zarr.group(store=filename, overwrite=overwrite): an existing group is
\* opened as it is unless overwrite is set, which erases what is there
ZarrGroup(st, ow) ==
    IF ow \/ ~st.exists THEN [exists |-> TRUE, arrays |-> NoArrays] ELSE st

\* variant: only the node of the requested level is resolved
RepDatasetLazy(h, i) ==
    IF ScalesRaises(h) THEN [err |-> "KeyError"]
    ELSE IF ~PyIndexOk(tseries_keys(h), 0) THEN [err |-> "IndexError"]
    ELSE IF ~PyIndexOk(channel_keys(h), 0) THEN [err |-> "IndexError"]
    ELSE LET lst == arrays(h)[tseries_keys(h)[1]][channel_keys(h)[1]]
         IN  IF ~PyIndexOk(lst, i) THEN [err |-> "IndexError"]
             ELSE IF ~PyIndex(lst, i).ok THEN [err |-> "KeyError"]
             ELSE [err |-> "none", ds |-> PyIndex(lst, i)]

\* dset = self.arrays[self.tseries_keys[0]][self.channel_keys[0]][i]
RepDataset(h, i) ==
    IF ArraysRaises(h) THEN [err |-> "KeyError"]
    ELSE IF ~PyIndexOk(tseries_keys(h), 0) THEN [err |-> "IndexError"]
    ELSE IF ~PyIndexOk(channel_keys(h), 0) THEN [err |-> "IndexError"]
    ELSE LET lst == arrays(h)[tseries_keys(h)[1]][channel_keys(h)[1]]
         IN  IF ~PyIndexOk(lst, i) THEN [err |-> "IndexError"]
             ELSE [err |-> "none", ds |-> PyIndex(lst, i)]

\* variant: the two outer axes are swapped
NewShapeSwapped(h, ds) == <<Len(channel_keys(h)), Len(tseries_keys(h))>> \o ds.shape

NewShape(h, ds) == <<Len(tseries_keys(h)), Len(channel_keys(h))>> \o ds.shape

NewChunks(ds) == <<1, 1>> \o ds.chunks

\* root.empty_like(i, dset, shape=..., chunks=...): the array is named str(i)
\* and its contents are not initialised
EmptyArray(shape, chunks) ==
    [shape |-> shape, chunks |-> chunks,
     data |-> [p \in (0 .. (shape[1] - 1)) \X (0 .. (shape[2] - 1)) |-> Unwritten]]

\* _arr[_t, _ch, :] = dset
WriteSlice(arr, p, ds) == [arr EXCEPT !.data[p] = ds.data]

NoRun == [status |-> "none"]
NoRead == [err |-> "unread"]
NoDset == NoNode

InitWith(kinds) ==
    /\ \E tn \in TimeNames :
       \E cn \in ChanNames :
       \E lv \in [cn -> 0 .. MaxL] :
       \E d \in Defects(tn, cn, lv, kinds) :
          h5 = Container(tn, cn, lv, d)
    /\ store = [exists |-> FALSE, arrays |-> NoArrays]
    /\ pc = "idle"
    /\ overwrite = FALSE
    /\ err = "none"
    /\ levels = <<>>
    /\ idx = 1
    /\ dset = NoDset
    /\ pos = <<0, 0>>
    /\ runs = 0
    /\ before = [exists |-> FALSE, arrays |-> NoArrays]
    /\ created = {}
    /\ last = NoRun
    /\ rd = NoRead

Init == InitWith({"notable", "nonode", "shape", "chunks"})

Raise(e) ==
    /\ pc' = "raised"
    /\ err' = e

ToZarr(ow) ==
    /\ pc = "idle"
    /\ runs < MaxRuns
    /\ runs' = runs + 1
    /\ overwrite' = ow
    /\ before' = store
    /\ created' = {}
    /\ store' = ZarrGroup(store, ow)
    /\ pc' = "multiscales"
    /\ UNCHANGED <<h5, err, levels, idx, dset, pos, last, rd>>

IterMultiscales ==
    /\ pc = "multiscales"
    /\ IF ScalesRaises(h5)
       THEN Raise("KeyError") /\ UNCHANGED levels
       ELSE /\ levels' = multiscales(h5)
            /\ pc' = IF Len(multiscales(h5)) = 0 THEN "done" ELSE "level"
            /\ err' = "none"
    /\ idx' = 1
    /\ UNCHANGED <<h5, store, overwrite, dset, pos, runs, before, created, last, rd>>

CreateLevel ==
    /\ pc = "level"
    /\ LET i == levels[idx]
           r == RepDataset(h5, i)
           name == ToString(i)
       IN  IF r.err # "none"
           THEN Raise(r.err) /\ UNCHANGED <<store, created, dset, pos>>
           ELSE IF name \in DOMAIN store.arrays
           THEN Raise("ContainsArrayError") /\ UNCHANGED <<store, created, dset, pos>>
           ELSE /\ store' = [store EXCEPT !.arrays =
                      (name :> EmptyArray(NewShape(h5, r.ds), NewChunks(r.ds))) @@ @]
                /\ created' = created \cup {name}
                /\ dset' = r.ds
                /\ pos' = <<0, 0>>
                /\ pc' = "copy"
                /\ err' = "none"
    /\ UNCHANGED <<h5, overwrite, levels, idx, runs, before, last, rd>>

CopySlice ==
    /\ pc = "copy"
    /\ store' = [store EXCEPT !.arrays[ToString(levels[idx])] = WriteSlice(@, pos, dset)]
    /\ IF pos[2] + 1 < Len(channel_keys(h5))
       THEN pos' = <<pos[1], pos[2] + 1>> /\ UNCHANGED <<pc, idx>>
       ELSE IF pos[1] + 1 < Len(tseries_keys(h5))
       THEN pos' = <<pos[1] + 1, 0>> /\ UNCHANGED <<pc, idx>>
       ELSE /\ pos' = <<0, 0>>
            /\ IF idx < Len(levels)
               THEN idx' = idx + 1 /\ pc' = "level"
               ELSE idx' = idx /\ pc' = "done"
    /\ UNCHANGED <<h5, overwrite, err, levels, dset, runs, before, created, last, rd>>

Return ==
    /\ pc \in {"done", "raised"}
    /\ last' = [status |-> pc, err |-> err, overwrite |-> overwrite, store |-> store]
    /\ pc' = "idle"
    /\ err' = "none"
    /\ levels' = <<>>
    /\ idx' = 1
    /\ dset' = NoDset
    /\ pos' = <<0, 0>>
    /\ UNCHANGED <<h5, store, overwrite, runs, before, created, rd>>

Next ==
    \/ \E ow \in BOOLEAN : ToZarr(ow)
    \/ IterMultiscales
    \/ CreateLevel
    \/ CopySlice
    \/ Return

Spec == Init /\ [][Next]_vars

\* ------------------------------------------------------------- reads
\* the z slices lo:hi a read is tried with: the first voxel, and all but it
Slices == {<<0, 1>>, <<1, MaxL>>}

GetItem(res, t, ch, z) ==
    /\ pc = "idle"
    /\ rd = NoRead
    /\ rd' = [res |-> res, t |-> t, ch |-> ch, z |-> z,
              out |-> GetItemResult(h5, res, t, ch, z)]
    /\ UNCHANGED <<h5, store, pc, overwrite, err, levels, idx, dset, pos, runs,
                   before, created, last>>

\* the caller takes the outcome of the read
ReadReturn ==
    /\ rd # NoRead
    /\ rd' = NoRead
    /\ UNCHANGED <<h5, store, pc, overwrite, err, levels, idx, dset, pos, runs,
                   before, created, last>>

InitRead == InitWith({"notable", "nonode"})

NextRead ==
    \/ \E res \in -(MaxL + 1) .. MaxL, t \in -(MaxT + 1) .. MaxT,
          ch \in -(MaxC + 1) .. MaxC, z \in Slices : GetItem(res, t, ch, z)
    \/ ReadReturn

SpecRead == InitRead /\ [][NextRead]_vars

\* ------------------------------------------------------------- the container, read directly
\* These definitions read h5 without going through the methods above.
Discovered(pre) == {e.num : e \in {x \in Range(h5.keys) : x.pre = pre}}

NumT == Cardinality(Discovered("t"))
NumC == Cardinality(Discovered("s"))

\* the number of the key at position p (0-based) of the keys of one prefix
KeyAt(pre, p) ==
    CHOOSE n \in Discovered(pre) :
        Cardinality({m \in Discovered(pre) : m < n}) = p

TablesOk == \A c \in Discovered("s") : h5.res[c].ok

LevelCount(c) == Len(h5.res[c].rows)

\* the source dataset at <time key tn>/<channel key cn>/<l>/cells
Direct(tn, cn, l) == h5.cells[<<tn, cn, l>>]

\* every node discovery looks up is there
Resolves ==
    /\ TablesOk
    /\ \A tn \in Discovered("t"), cn \in Discovered("s") :
          \A l \in 0 .. (LevelCount(cn) - 1) : Direct(tn, cn, l).ok

HasCommonCount ==
    /\ NumC >= 1
    /\ TablesOk
    /\ \A c1, c2 \in Discovered("s") : LevelCount(c1) = LevelCount(c2)

CommonCount == LevelCount(KeyAt("s", 0))

Divergent ==
    /\ TablesOk
    /\ \E c1, c2 \in Discovered("s") : LevelCount(c1) # LevelCount(c2)

RunEnded == pc \in {"done", "raised"}

LevelNames(n) == {ToString(i) : i \in 0 .. (n - 1)}

\* ------------------------------------------------------------- claims
\* C1: after to_zarr completes on a source with a common level count, the
\* destination array of every level i holds at [t, c] the contents of the
\* source dataset at (level i, time t, channel c).
C1_SlicesEqualSource ==
    (pc = "done" /\ HasCommonCount) =>
        \A i \in 0 .. (CommonCount - 1) :
            /\ ToString(i) \in DOMAIN store.arrays
            /\ \A t \in 0 .. (NumT - 1), c \in 0 .. (NumC - 1) :
                  store.arrays[ToString(i)].data[<<t, c>>]
                      = Direct(KeyAt("t", t), KeyAt("s", c), i).data

\* C2: after to_zarr completes on a source with T time points, C channels
\* and a common level count L, the destination holds exactly the arrays of
\* the levels 0 .. L-1, and the array of level i has shape (T, C, *shape) and
\* chunks (1, 1, *chunks) of the dataset at (first time, first channel, i).
C2_ShapesAndChunks ==
    (pc = "done" /\ HasCommonCount) =>
        /\ DOMAIN store.arrays = LevelNames(CommonCount)
        /\ \A i \in 0 .. (CommonCount - 1) :
              LET rep == Direct(KeyAt("t", 0), KeyAt("s", 0), i)
                  arr == store.arrays[ToString(i)]
              IN  /\ arr.shape = <<NumT, NumC>> \o rep.shape
                  /\ arr.chunks = <<1, 1>> \o rep.chunks
                  /\ DOMAIN arr.data = (0 .. (NumT - 1)) \X (0 .. (NumC - 1))

C2_Witness ==
    /\ pc = "done"
    /\ HasCommonCount
    /\ CommonCount >= 2
    /\ NumT = 1
    /\ NumC = 2
    /\ DOMAIN store.arrays = LevelNames(CommonCount)

\* C5: a to_zarr call with overwrite disabled against a destination that holds
\* level arrays leaves the destination as it found it at every step and ends
\* with ContainsArrayError (the destination-exists error).
C5_NoOverwriteFails ==
    (pc # "idle" /\ ~overwrite /\ DOMAIN before.arrays # {}) =>
        /\ store = before
        /\ RunEnded => (pc = "raised" /\ err = "ContainsArrayError")

C5_Witness ==
    /\ pc = "raised"
    /\ err = "ContainsArrayError"
    /\ ~overwrite
    /\ Cardinality(DOMAIN before.arrays) >= 2
    /\ store = before

\* C6: when the channels report different level counts, to_zarr fails with
\* ShapeMismatchError.
C6_DivergentCountsRejected ==
    (RunEnded /\ Divergent) => (pc = "raised" /\ err = "ShapeMismatchError")

\* C7: if at some level a (time, channel) dataset has a shape or chunk
\* geometry different from the representative dataset of that level, to_zarr
\* fails with ShapeMismatchError instead of completing.
C7_MismatchRejected ==
    (RunEnded /\ HasCommonCount /\ Resolves /\ NumT >= 1
       /\ \E i \in 0 .. (CommonCount - 1), tn \in Discovered("t"), cn \in Discovered("s") :
             LET rep == Direct(KeyAt("t", 0), KeyAt("s", 0), i)
             IN  \/ Direct(tn, cn, i).shape # rep.shape
                 \/ Direct(tn, cn, i).chunks # rep.chunks)
    => (pc = "raised" /\ err = "ShapeMismatchError")

\* C8: for a container with no entry of prefix 's' and none of prefix 't',
\* to_zarr fails with StructureError rather than completing as a no-op.
C8_EmptyLayoutRejected ==
    (RunEnded /\ NumT = 0 /\ NumC = 0) => (pc = "raised" /\ err = "StructureError")

\* C9: a to_zarr call with overwrite enabled that follows a completed call
\* with overwrite enabled completes and leaves the destination with the same
\* arrays, shapes, chunks and contents as the first call left.
C9_OverwriteIdempotent ==
    (RunEnded /\ overwrite /\ last.status = "done" /\ last.overwrite) =>
        (pc = "done" /\ store = last.store)

C9_Witness ==
    /\ pc = "done"
    /\ overwrite
    /\ last.status = "done"
    /\ last.overwrite
    /\ Cardinality(DOMAIN store.arrays) >= 2
    /\ NumT * NumC >= 2
    /\ store = last.store

\* C10: a to_zarr call that ends in a discovery error (KeyError for a missing
\* table or node, IndexError for no time point or divergent level counts) has
\* created no array in the destination.
C10_DiscoveryErrorsFirst ==
    (pc = "raised" /\ err \in {"KeyError", "IndexError"}) => created = {}

C10_Witness ==
    /\ pc = "raised"
    /\ err = "KeyError"
    /\ created = {}
    /\ TablesOk
    /\ NumT >= 1
    /\ NumC >= 1
    /\ LevelCount(KeyAt("s", 0)) >= 2
    /\ Direct(KeyAt("t", 0), KeyAt("s", 0), 0).ok
    /\ ~Direct(KeyAt("t", 0), KeyAt("s", 0), 1).ok

\* ------------------------------------------------------------- claims about reads
ReadDone == rd # NoRead

\* data[lo:hi] read on the dataset itself
DirectSlice(ds, z) ==
    LET hi == IF z[2] < Len(ds.data) THEN z[2] ELSE Len(ds.data)
    IN  [k \in 1 .. (hi - z[1]) |-> ds.data[z[1] + k]]

\* the key a position in -n .. n-1 selects
WrapKey(pre, p) ==
    KeyAt(pre, IF p < 0 THEN p + Cardinality(Discovered(pre)) ELSE p)

ValidTriple ==
    /\ rd.t \in 0 .. (NumT - 1)
    /\ rd.ch \in 0 .. (NumC - 1)
    /\ h5.res[KeyAt("s", rd.ch)].ok
    /\ rd.res \in 0 .. (LevelCount(KeyAt("s", rd.ch)) - 1)
    /\ Direct(KeyAt("t", rd.t), KeyAt("s", rd.ch), rd.res).ok

ReadIsDirect ==
    /\ rd.out.err = "none"
    /\ rd.out.val = DirectSlice(Direct(KeyAt("t", rd.t), KeyAt("s", rd.ch), rd.res), rd.z)

\* C3 (as stated): for every valid position triple (res, t, ch) the read
\* obj[res, t, ch, z, y, x] returns the data of slicing the source dataset at
\* <time key t>/<channel key ch>/<res>/cells, the keys taken by position.
C3_ReadEqualsDirect == (ReadDone /\ ValidTriple) => ReadIsDirect

\* C3 (amended): the same, on a container in which every channel has its
\* 'resolutions' table and every (time, channel, level) cells node exists.
C3_ReadEqualsDirectResolved == (ReadDone /\ ValidTriple /\ Resolves) => ReadIsDirect

C3_Witness ==
    /\ ReadDone
    /\ ValidTriple
    /\ Resolves
    /\ rd.ch \in Discovered("s")
    /\ KeyAt("s", rd.ch) # rd.ch
    /\ KeyAt("t", rd.t) # rd.t
    /\ rd.res >= 1
    /\ rd.out.err = "none"
    /\ Len(rd.out.val) >= 1

OutT == rd.t \notin -NumT .. (NumT - 1)
OutC == rd.ch \notin -NumC .. (NumC - 1)
OutRes ==
    LET n == LevelCount(WrapKey("s", rd.ch))
    IN  rd.res \notin -n .. (n - 1)

\* C4 (as stated): a read whose resolution, time or channel position is
\* outside 0 .. n-1 of its axis (below 0 as well as at or above n) fails with
\* an IndexError-kind error, here any of Python's lookup errors, and returns
\* no data.
C4_OutsideZeroBasedRangeFails ==
    (ReadDone /\ (\/ rd.t \notin 0 .. (NumT - 1)
                  \/ rd.ch \notin 0 .. (NumC - 1)
                  \/ /\ h5.res[KeyAt("s", rd.ch)].ok
                     /\ rd.res \notin 0 .. (LevelCount(KeyAt("s", rd.ch)) - 1)))
    => rd.out.err \in {"IndexError", "KeyError"}

\* C4 (amended): a read whose time or channel position is outside -n .. n-1
\* fails with IndexError; so does one whose resolution position is outside
\* -L .. L-1 of the selected channel when every node of the container
\* resolves, and with KeyError when one does not; a read whose three
\* positions are inside -n .. n-1 on a container that resolves returns data.
C4_OutsideWrappedRangeFails ==
    ReadDone =>
        /\ (OutT \/ OutC) => rd.out.err = "IndexError"
        /\ (~OutT /\ ~OutC /\ TablesOk /\ OutRes) =>
              rd.out.err = (IF Resolves THEN "IndexError" ELSE "KeyError")
        /\ (~OutT /\ ~OutC /\ Resolves /\ ~OutRes) => rd.out.err = "none"

C4_Witness ==
    /\ ReadDone
    /\ NumT >= 2
    /\ NumC >= 2
    /\ Resolves
    /\ ~OutT
    /\ ~OutC
    /\ rd.t < 0
    /\ LevelCount(WrapKey("s", rd.ch)) >= 1
    /\ rd.res = LevelCount(WrapKey("s", rd.ch))
    /\ rd.out.err = "IndexError"

====
